---------------------------- MODULE Spec2Model ----------------------------
(***************************************************************************)
(* A model of the SpinWait adaptive spinner (src/spinwait/src/lib.rs).     *)
(*                                                                         *)
(* The spinner is a 32-bit atomic counter and a fixed 32-bit threshold.    *)
(* spin_once is modelled statement by statement: the fetch_add of line 42, *)
(* the load inside next_spin_will_yield() of line 45, the load of line 47  *)
(* and the load of line 51 are separate atomic steps, as they are in the   *)
(* code.                                                                   *)
(*                                                                         *)
(* TLC's integers are 32-bit signed, so a u32 is written as two 16-bit     *)
(* limbs [hi, lo] (value hi * 2^16 + lo) and the arithmetic and the        *)
(* comparisons of the code are done on the limbs, at the code's width.     *)
(* A sleep of 2^e nanoseconds is recorded by its exponent e.               *)
(***************************************************************************)
EXTENDS Naturals, Integers, FiniteSets, Sequences, TLC

(***************************************************************************)
(* Program constants.                                                      *)
(***************************************************************************)
\* 2^16: one limb of the AtomicU32 counter (lib.rs:15).
Limb == 65536

\* SpinWait::new() sets yield_threshold to 10 (lib.rs:25).
DefaultThreshold == 10

\* spin_once spins while the counter is < 4 (lib.rs:47).
SpinLimit == 4

\* Duration::from_nanos takes a u64: `1 << n` is a 64-bit shift (lib.rs:51).
ShiftBits == 64

(***************************************************************************)
(* Bounds of the model.                                                    *)
(***************************************************************************)
\* spin_once calls explored one by one from a counter of 0 (per lap of the
\* counter); large enough to pass the 64-bit shift width and HighThreshold.
MaxCalls == 67

\* A threshold above the shift width, so that the sleep branch is reached
\* with a counter of 64 and more.
HighThreshold == 66

\* Logical processors of the hosts explored: 1 .. MaxCpus.
MaxCpus == 2

\* Wait steps explored inside one spin_until call.
MaxUntilSteps == 5

\* The length of a short run of consecutive yielding spin_once calls.
RunShort == 1000

\* A long run stops 0 .. RunRest calls before the one that would leave the
\* counter at u32::MAX.
RunRest == 2

(***************************************************************************)
(* u32 values as limbs.                                                    *)
(***************************************************************************)
U32(n) == [hi |-> n \div Limb, lo |-> n % Limb]

Zero == U32(0)

U32Max == [hi |-> Limb - 1, lo |-> Limb - 1]

\* a >= b on u32.
Ge(a, b) == a.hi > b.hi \/ (a.hi = b.hi /\ a.lo >= b.lo)

\* a < b on u32.
Lt(a, b) == ~Ge(a, b)

\* AtomicU32::fetch_add(1): the new value, wrapping at 2^32.
FetchAdd1(x) ==
    IF x.lo = Limb - 1 THEN [hi |-> (x.hi + 1) % Limb, lo |-> 0]
    ELSE [hi |-> x.hi, lo |-> x.lo + 1]

\* a - b on u32, for a >= b.
Sub(a, b) ==
    IF a.lo >= b.lo THEN [hi |-> a.hi - b.hi, lo |-> a.lo - b.lo]
    ELSE [hi |-> a.hi - b.hi - 1, lo |-> a.lo + Limb - b.lo]

\* n applications of fetch_add(1) to x: x + n, wrapping at 2^32.
FetchAddN(x, n) ==
    LET lo == x.lo + n.lo
        hi == x.hi + n.hi + (lo \div Limb)
    IN  [hi |-> hi % Limb, lo |-> lo % Limb]

(***************************************************************************)
(* The number of calls made, a natural number that does not wrap:          *)
(* laps * 2^32 + rem, with rem in limbs.                                   *)
(***************************************************************************)
NoCalls == [laps |-> 0, rem |-> Zero]

OneMore(n) ==
    IF n.rem = U32Max THEN [laps |-> n.laps + 1, rem |-> Zero]
    ELSE IF n.rem.lo = Limb - 1
         THEN [laps |-> n.laps, rem |-> [hi |-> n.rem.hi + 1, lo |-> 0]]
    ELSE [laps |-> n.laps, rem |-> [hi |-> n.rem.hi, lo |-> n.rem.lo + 1]]

\* n + k for a small k.
RECURSIVE Plus(_, _)
Plus(n, k) == IF k = 0 THEN n ELSE Plus(OneMore(n), k - 1)

\* n + k for a u32 k.
PlusU32(n, k) ==
    LET lo == n.rem.lo + k.lo
        hi == n.rem.hi + k.hi + (lo \div Limb)
    IN  [laps |-> n.laps + (hi \div Limb), rem |-> [hi |-> hi % Limb, lo |-> lo % Limb]]

(***************************************************************************)
(* State.                                                                  *)
(***************************************************************************)
Threads == {"owner", "other"}

Thresholds ==
    {U32(0), U32(1), U32(3), U32(4), U32(5), U32(DefaultThreshold), U32(HighThreshold)}

VARIABLES
    count,            \* SpinWait.count, the AtomicU32
    yield_threshold,  \* SpinWait.yield_threshold
    built,            \* the constructor call that made the spinner
    ncpus,            \* what num_cpus::get() returns on this host
    overflow_checks,  \* the build: TRUE when arithmetic overflow panics
    flag,             \* the AtomicBool the spin_until condition reads
    pc,               \* where each thread is
    caller,           \* who called the spin_once in flight: "top" or "spin_until"
    own,              \* the counter value each thread's last fetch_add produced
    act,              \* what each thread's last spin_once did
    shift,            \* the shift amount of each thread's last sleep (line 51)
    nanos_log2,       \* log2 of the nanoseconds each thread's last sleep asked for
    prev,             \* each thread's spin_once call before its last one, in this episode
    calls,            \* spin_once calls of each thread since construction or reset
    everReset,        \* whether reset() was ever called
    lastOp,           \* the owner's last finished operation
    ret_count,        \* what count() returned, when lastOp = "count"
    ret_yield,        \* what next_spin_will_yield() returned, when lastOp is it
    pred,             \* next_spin_will_yield()'s answer right before the spin_once
    c0,               \* the counter when the current spin_until was called
    evals,            \* predicate evaluations of the current spin_until
    steps,            \* spin_once calls started by the current spin_until
    lastEval,         \* the last predicate evaluation: "none", "true", "false"
    made              \* spin_once calls each thread began after the second was spawned

vars == <<count, yield_threshold, built, ncpus, overflow_checks, flag, pc, caller,
          own, act, shift, nanos_log2, prev, calls, everReset, lastOp, ret_count,
          ret_yield, pred, c0, evals, steps, lastEval, made>>

spinner == <<count, yield_threshold>>
host == <<ncpus, overflow_checks, built>>
untilVars == <<c0, evals, steps, lastEval>>
callVars == <<own, act, shift, nanos_log2, prev>>

\* No earlier call in this episode.
NoPrev == [act |-> "none", shift |-> Zero, log2 |-> 0]

(***************************************************************************)
(* Construction.                                                           *)
(***************************************************************************)
\* SpinWait::new(): count 0, threshold 10.
New == [count |-> Zero, yield_threshold |-> U32(DefaultThreshold)]

\* A faulty with_threshold that ignores its argument.
MutWithThresholdIgnoresArg(t) == [count |-> Zero, yield_threshold |-> U32(DefaultThreshold)]

\* SpinWait::with_threshold(t): count 0, threshold t.
WithThreshold(t) == [count |-> Zero, yield_threshold |-> t]

\* Default::default() is Self::new().
Default == New

Construct(b) ==
    IF b.ctor = "new" THEN New
    ELSE IF b.ctor = "default" THEN Default
    ELSE WithThreshold(b.arg)

Builds ==
    {[ctor |-> "new", arg |-> U32(DefaultThreshold)],
     [ctor |-> "default", arg |-> U32(DefaultThreshold)]}
    \cup {[ctor |-> "with_threshold", arg |-> t] : t \in Thresholds}

Init ==
    /\ built \in Builds
    /\ count = Construct(built).count
    /\ yield_threshold = Construct(built).yield_threshold
    /\ ncpus \in 1..MaxCpus
    /\ overflow_checks \in BOOLEAN
    /\ flag = FALSE
    /\ pc = [t \in Threads |-> IF t = "owner" THEN "idle" ELSE "absent"]
    /\ caller = [t \in Threads |-> "top"]
    /\ own = [t \in Threads |-> Zero]
    /\ act = [t \in Threads |-> "none"]
    /\ shift = [t \in Threads |-> Zero]
    /\ nanos_log2 = [t \in Threads |-> 0]
    /\ prev = [t \in Threads |-> NoPrev]
    /\ calls = [t \in Threads |-> NoCalls]
    /\ everReset = FALSE
    /\ lastOp = "none"
    /\ ret_count = Zero
    /\ ret_yield = FALSE
    /\ pred = "none"
    /\ c0 = Zero
    /\ evals = 0
    /\ steps = 0
    /\ lastEval = "none"
    /\ made = [t \in Threads |-> 0]

(***************************************************************************)
(* The pure parts of the code.                                             *)
(***************************************************************************)
\* A faulty next_spin_will_yield that compares with > instead of >=.
MutNextSpinWillYieldGt(c, threshold) == Ge(c, threshold) /\ c # threshold

\* next_spin_will_yield (lib.rs:64-66) on a loaded counter c.
NextSpinWillYield(c, threshold) == Ge(c, threshold)

\* A faulty line 45 that leaves out the processor count.
MutShouldYieldNoCpuCheck(c, threshold, cpus) == NextSpinWillYield(c, threshold)

\* A faulty line 45 that leaves out the threshold.
MutShouldYieldNever(c, threshold, cpus) == cpus = 1

\* The condition of line 45, on the counter c the call to
\* next_spin_will_yield loads.
ShouldYield(c, threshold, cpus) == NextSpinWillYield(c, threshold) \/ cpus = 1

\* The condition of line 47.
ShouldSpin(c) == Lt(c, U32(SpinLimit))

\* `1u64 << n` of line 51 overflows when n is not below the width of u64: a
\* panic in a build with overflow checks, and a shift by n % 64 without.
ShlOverflows(n) == Ge(n, U32(ShiftBits))

WrappingShlExponent(n) == n.lo % ShiftBits

(***************************************************************************)
(* Bounds on the exploration.                                              *)
(***************************************************************************)
\* Calls explored again from 0 after the counter has wrapped.
MaxLapCalls == 12

CanCall(t) ==
    LET n == calls[t] IN
    \/ n.laps = 0 /\ n.rem.hi = 0 /\ n.rem.lo < MaxCalls
    \/ n.laps = 0 /\ Ge(n.rem, Sub(U32Max, U32(RunRest)))
    \/ n.laps = 1 /\ n.rem.hi = 0 /\ n.rem.lo < MaxLapCalls

(***************************************************************************)
(* Bookkeeping of the owner's operations.                                  *)
(***************************************************************************)
\* An operation other than count() and next_spin_will_yield() starts: what the
\* last observer returned is no longer the last thing that happened.
ClearReturns ==
    /\ ret_count' = Zero
    /\ ret_yield' = FALSE

ClearUntil ==
    /\ c0' = Zero
    /\ evals' = 0
    /\ steps' = 0
    /\ lastEval' = "none"

\* spin_once returns to its caller having done `a`.
Finish(t, a) ==
    /\ act' = [act EXCEPT ![t] = a]
    /\ pc' = [pc EXCEPT ![t] = IF caller[t] = "spin_until" THEN "until"
                               ELSE IF t = "owner" THEN "idle" ELSE "start"]
    /\ lastOp' = IF t = "owner" /\ caller[t] = "top" THEN "spin_once" ELSE lastOp

(***************************************************************************)
(* spin_once (lib.rs:41-53).                                               *)
(***************************************************************************)
\* Line 42: self.count.fetch_add(1, Relaxed).
FetchAdd(t) ==
    /\ count' = FetchAdd1(count)
    /\ own' = [own EXCEPT ![t] = FetchAdd1(count)]
    /\ act' = [act EXCEPT ![t] = "none"]
    /\ calls' = [calls EXCEPT ![t] = OneMore(@)]
    /\ prev' = [prev EXCEPT ![t] =
                  IF calls[t] = NoCalls THEN NoPrev
                  ELSE [act |-> act[t], shift |-> shift[t], log2 |-> nanos_log2[t]]]
    /\ pc' = [pc EXCEPT ![t] = "decide"]
    /\ UNCHANGED <<yield_threshold, shift, nanos_log2>>

\* The owner calls spin_once: line 42.
CallSpinOnce ==
    /\ pc["owner"] = "idle"
    /\ CanCall("owner")
    /\ FetchAdd("owner")
    /\ caller' = [caller EXCEPT !["owner"] = "top"]
    /\ pred' = IF lastOp = "next_spin_will_yield"
               THEN (IF ret_yield THEN "yes" ELSE "no")
               ELSE "none"
    /\ lastOp' = "none"
    /\ ClearReturns
    /\ ClearUntil
    /\ UNCHANGED <<host, made, flag, everReset>>

\* Line 45: next_spin_will_yield() loads the counter; num_cpus::get() is read
\* when it answered false; line 46: yield_now().
SpinOnceDecide(t) ==
    /\ pc[t] = "decide"
    /\ IF ShouldYield(count, yield_threshold, ncpus)
       THEN Finish(t, "yield")
       ELSE /\ pc' = [pc EXCEPT ![t] = "lt4"]
            /\ UNCHANGED <<act, lastOp>>
    /\ UNCHANGED <<spinner, host, made, flag, caller, own, shift, nanos_log2, prev, calls,
                   everReset, ret_count, ret_yield, pred, untilVars>>

\* Line 47: the counter is loaded again; line 48: spin_loop().
SpinOnceSpin(t) ==
    /\ pc[t] = "lt4"
    /\ IF ShouldSpin(count)
       THEN Finish(t, "spin")
       ELSE /\ pc' = [pc EXCEPT ![t] = "sleep"]
            /\ UNCHANGED <<act, lastOp>>
    /\ UNCHANGED <<spinner, host, made, flag, caller, own, shift, nanos_log2, prev, calls,
                   everReset, ret_count, ret_yield, pred, untilVars>>

\* Line 51: the counter is loaded a third time, 1 << n is computed and the
\* thread sleeps that many nanoseconds. The shift panics in a build with
\* overflow checks when n >= 64; the panic unwinds out of spin_once and of
\* spin_until.
SpinOnceSleep(t) ==
    /\ pc[t] = "sleep"
    /\ shift' = [shift EXCEPT ![t] = count]
    /\ IF overflow_checks /\ ShlOverflows(count)
       THEN /\ pc' = [pc EXCEPT ![t] = "panicked"]
            /\ act' = [act EXCEPT ![t] = "panic"]
            /\ UNCHANGED <<nanos_log2, lastOp>>
       ELSE /\ nanos_log2' = [nanos_log2 EXCEPT ![t] = WrappingShlExponent(count)]
            /\ Finish(t, "sleep")
    /\ UNCHANGED <<spinner, host, made, flag, caller, own, prev, calls, everReset,
                   ret_count, ret_yield, pred, untilVars>>

\* A run of n >= 2 consecutive spin_once calls by the owner, every one of
\* which yields, made while no second thread exists. Each call of the run is
\* a FetchAdd followed by a SpinOnceDecide that yields: the owner is the only
\* thread, no call of the run wraps the counter, so the counter only grows,
\* and once the first call's counter is at or above the threshold (or the
\* host has one processor) every call yields. Once a second thread is
\* spawned every call is taken statement by statement.
SpinOnceRun(n) ==
    /\ pc["owner"] = "idle"
    /\ pc["other"] = "absent"
    /\ Ge(n, U32(2))
    /\ Ge(Sub(U32Max, count), n)
    /\ ShouldYield(FetchAdd1(count), yield_threshold, ncpus)
    /\ count' = FetchAddN(count, n)
    /\ own' = [own EXCEPT !["owner"] = FetchAddN(count, n)]
    /\ act' = [act EXCEPT !["owner"] = "yield"]
    /\ prev' = [prev EXCEPT !["owner"] =
                  [act |-> "yield", shift |-> shift["owner"], log2 |-> nanos_log2["owner"]]]
    /\ calls' = [calls EXCEPT !["owner"] = PlusU32(@, n)]
    /\ caller' = [caller EXCEPT !["owner"] = "top"]
    /\ lastOp' = "spin_once"
    /\ pred' = "none"
    /\ ClearReturns
    /\ ClearUntil
    /\ UNCHANGED <<yield_threshold, host, made, flag, pc, shift, nanos_log2, everReset>>

\* The run lengths explored: a short run while the counter is small, and the
\* runs that stop 0 .. RunRest calls before the counter is u32::MAX; all of
\* them in the owner's first 2^32 calls of an episode.
RunLengths ==
    IF calls["owner"].laps # 0 THEN {}
    ELSE LET toTop == Sub(U32Max, count) IN
         {Sub(toTop, U32(k)) : k \in {j \in 0..RunRest : Ge(toTop, U32(j))}}
         \cup (IF Lt(count, U32(RunShort)) THEN {U32(RunShort)} ELSE {})

(***************************************************************************)
(* count, next_spin_will_yield, reset (lib.rs:55-71).                      *)
(***************************************************************************)
\* A faulty count() that reads the counter with fetch_add(1).
MutCountIncrements ==
    /\ pc["owner"] = "idle"
    /\ lastOp' = "count"
    /\ ret_count' = count
    /\ count' = FetchAdd1(count)
    /\ ret_yield' = FALSE
    /\ pred' = "none"
    /\ ClearUntil
    /\ UNCHANGED <<yield_threshold, host, made, flag, pc, caller, callVars, calls, everReset>>

\* count(): a relaxed load.
Count ==
    /\ pc["owner"] = "idle"
    /\ lastOp' = "count"
    /\ ret_count' = count
    /\ ret_yield' = FALSE
    /\ pred' = "none"
    /\ ClearUntil
    /\ UNCHANGED <<spinner, host, made, flag, pc, caller, callVars, calls, everReset>>

\* next_spin_will_yield(): a relaxed load compared with the threshold.
NextSpinWillYieldCall ==
    /\ pc["owner"] = "idle"
    /\ lastOp' = "next_spin_will_yield"
    /\ ret_yield' = NextSpinWillYield(count, yield_threshold)
    /\ ret_count' = Zero
    /\ pred' = "none"
    /\ ClearUntil
    /\ UNCHANGED <<spinner, host, made, flag, pc, caller, callVars, calls, everReset>>

\* A faulty reset() that stores the counter back unchanged.
MutResetKeepsCount ==
    /\ pc["owner"] = "idle"
    /\ count' = count
    /\ calls' = [calls EXCEPT !["owner"] = NoCalls]
    /\ everReset' = TRUE
    /\ lastOp' = "reset"
    /\ pred' = "none"
    /\ ClearReturns
    /\ ClearUntil
    /\ UNCHANGED <<yield_threshold, host, made, flag, pc, caller, callVars>>

\* reset(): a relaxed store of 0.
Reset ==
    /\ pc["owner"] = "idle"
    /\ count' = Zero
    /\ calls' = [calls EXCEPT !["owner"] = NoCalls]
    /\ everReset' = TRUE
    /\ lastOp' = "reset"
    /\ pred' = "none"
    /\ ClearReturns
    /\ ClearUntil
    /\ UNCHANGED <<yield_threshold, host, made, flag, pc, caller, callVars>>

(***************************************************************************)
(* spin_until (lib.rs:87-94), with the condition of the test and of the    *)
(* doc example: || flag.load(Relaxed).                                     *)
(***************************************************************************)
\* The owner calls spin_until.
CallSpinUntil ==
    /\ pc["owner"] = "idle"
    /\ pc' = [pc EXCEPT !["owner"] = "until"]
    /\ caller' = [caller EXCEPT !["owner"] = "spin_until"]
    /\ c0' = count
    /\ evals' = 0
    /\ steps' = 0
    /\ lastEval' = "none"
    /\ lastOp' = "none"
    /\ pred' = "none"
    /\ ClearReturns
    /\ UNCHANGED <<spinner, host, made, flag, callVars, calls, everReset>>

\* A faulty loop that takes a wait step before it first acts on the
\* condition (do { spin_once() } while !condition()).
MutUntilEvalSpinsFirst ==
    /\ pc["owner"] = "until"
    /\ steps < MaxUntilSteps /\ CanCall("owner")
    /\ evals' = evals + 1
    /\ IF flag /\ steps > 0
       THEN /\ pc' = [pc EXCEPT !["owner"] = "idle"]
            /\ caller' = [caller EXCEPT !["owner"] = "top"]
            /\ lastEval' = "true"
            /\ lastOp' = "spin_until"
       ELSE /\ pc' = [pc EXCEPT !["owner"] = "enter"]
            /\ lastEval' = IF flag THEN "true" ELSE "false"
            /\ UNCHANGED <<caller, lastOp>>
    /\ UNCHANGED <<spinner, host, made, flag, callVars, calls, everReset, ret_count,
                   ret_yield, pred, c0, steps>>

\* Line 91: `while !condition()`: the condition is evaluated; spin_until
\* returns when it is true and goes on to line 92 when it is false.
UntilEval ==
    /\ pc["owner"] = "until"
    /\ flag \/ (steps < MaxUntilSteps /\ CanCall("owner"))
    /\ evals' = evals + 1
    /\ IF flag
       THEN /\ pc' = [pc EXCEPT !["owner"] = "idle"]
            /\ caller' = [caller EXCEPT !["owner"] = "top"]
            /\ lastEval' = "true"
            /\ lastOp' = "spin_until"
       ELSE /\ pc' = [pc EXCEPT !["owner"] = "enter"]
            /\ lastEval' = "false"
            /\ UNCHANGED <<caller, lastOp>>
    /\ UNCHANGED <<spinner, host, made, flag, callVars, calls, everReset, ret_count,
                   ret_yield, pred, c0, steps>>

\* Line 92: self.spin_once(), whose first statement is line 42.
UntilSpinOnce ==
    /\ pc["owner"] = "enter"
    /\ FetchAdd("owner")
    /\ steps' = steps + 1
    /\ UNCHANGED <<host, made, flag, caller, everReset, lastOp, ret_count, ret_yield,
                   pred, c0, evals, lastEval>>

(***************************************************************************)
(* The second thread of tests::test_spin_until (lib.rs:144-150).           *)
(***************************************************************************)
\* thread::spawn: the thread that owns the spinner starts the second thread,
\* between two of its own operations. The second thread takes no step before.
Spawn ==
    /\ pc["owner"] = "idle"
    /\ pc["other"] = "absent"
    /\ pc' = [pc EXCEPT !["other"] = "start"]
    /\ UNCHANGED <<spinner, host, made, flag, caller, callVars, calls, everReset,
                   lastOp, ret_count, ret_yield, pred, untilVars>>

\* flag.store(true, Relaxed).
SetFlag ==
    /\ pc["other"] = "start"
    /\ flag' = TRUE
    /\ pc' = [pc EXCEPT !["other"] = "done"]
    /\ UNCHANGED <<spinner, host, made, caller, callVars, calls, everReset, lastOp,
                   ret_count, ret_yield, pred, untilVars>>

(***************************************************************************)
(* The spinner used by the one thread that owns it.                        *)
(***************************************************************************)
OwnerStep ==
    \/ SpinOnceDecide("owner")
    \/ SpinOnceSpin("owner")
    \/ SpinOnceSleep("owner")
    \/ UntilEval
    \/ UntilSpinOnce

Next ==
    \/ CallSpinOnce
    \/ \E n \in RunLengths : SpinOnceRun(n)
    \/ Count
    \/ NextSpinWillYieldCall
    \/ Reset
    \/ CallSpinUntil
    \/ OwnerStep
    \/ Spawn
    \/ SetFlag

Spec == Init /\ [][Next]_vars

\* Scheduling: a thread that is inside a call keeps running, and the second
\* thread, once spawned, runs its store.
FairSpec == Spec /\ WF_vars(OwnerStep) /\ WF_vars(SetFlag)

(***************************************************************************)
(* The spinner shared by two threads: SpinWait is Sync (its only interior  *)
(* mutability is the AtomicU32) and every method takes &self, so a second  *)
(* thread can call spin_once and reset while the owner is inside           *)
(* spin_once.                                                              *)
(***************************************************************************)
\* spin_once calls explored per thread once the second thread is spawned.
MaxSharedCalls == 2

\* spin_once calls the owner makes one by one before it spawns the second
\* thread.
MaxSoloCalls == 3

\* A depth bound: before the spawn on the owner's calls of the episode, after
\* it on the calls each thread has begun, whatever the counter and whatever
\* the other thread has done.
SharedCanCall(t) ==
    IF pc["other"] = "absent"
    THEN calls[t].laps = 0 /\ calls[t].rem.hi = 0 /\ calls[t].rem.lo < MaxSoloCalls
    ELSE made[t] < MaxSharedCalls

\* Where a thread is between two calls.
Between(t) == IF t = "owner" THEN "idle" ELSE "start"

\* Thread t calls spin_once: line 42.
SharedCallSpinOnce(t) ==
    /\ pc[t] = Between(t)
    /\ SharedCanCall(t)
    /\ FetchAdd(t)
    /\ made' = IF pc["other"] = "absent" THEN made ELSE [made EXCEPT ![t] = @ + 1]
    /\ lastOp' = IF t = "owner" THEN "none" ELSE lastOp
    /\ UNCHANGED <<host, flag, caller, everReset, ret_count, ret_yield, pred,
                   untilVars>>

\* The second thread calls reset(): line 70. One such call is explored.
OtherReset ==
    /\ pc["other"] = "start"
    /\ ~everReset
    /\ count' = Zero
    /\ calls' = [t \in Threads |-> NoCalls]
    /\ everReset' = TRUE
    /\ UNCHANGED <<yield_threshold, host, made, flag, pc, caller, callVars, lastOp,
                   ret_count, ret_yield, pred, untilVars>>

SharedNext ==
    \/ \E t \in Threads :
          \/ SharedCallSpinOnce(t)
          \/ SpinOnceDecide(t)
          \/ SpinOnceSpin(t)
          \/ SpinOnceSleep(t)
    \/ \E n \in RunLengths : SpinOnceRun(n)
    \/ Count
    \/ Spawn
    \/ OtherReset

SharedSpec == Init /\ [][SharedNext]_vars

(***************************************************************************)
(* What the claims say, in their own terms.                                *)
(***************************************************************************)
\* The action the policy fixes for a post-increment counter c and a threshold
\* on a host with more than one processor.
PolicyAction(c, threshold) ==
    IF Ge(c, threshold) THEN "yield"
    ELSE IF Lt(c, U32(SpinLimit)) THEN "spin"
    ELSE "sleep"

\* A spin_once call of the owner has ended (returned or unwound).
CallEnded == act["owner"] # "none"

\* The owner is inside a spin_once call.
InSpinOnce == pc["owner"] \in {"decide", "lt4", "sleep"}

\* The threshold the constructor call was given.
BuiltThreshold == IF built.ctor = "with_threshold" THEN built.arg ELSE U32(DefaultThreshold)

\* C1: on a host with more than one processor every spin_once call takes the
\* action the policy fixes for its post-increment counter and the threshold:
\* yield when c >= T, else a spin hint when c < 4, else a sleep.
C1_ActionFixedByCounter ==
    (ncpus > 1 /\ CallEnded) =>
        act["owner"] = PolicyAction(own["owner"], yield_threshold)

\* C2: on a host with exactly one processor every spin_once call yields, and
\* the spin and sleep branches are never entered, whatever the counter and
\* the threshold.
C2_SingleCpuAlwaysYields ==
    ncpus = 1 =>
        /\ act["owner"] \in {"none", "yield"}
        /\ pc["owner"] \notin {"lt4", "sleep", "panicked"}

\* C2's case: a one-processor host, a call whose counter was below 4 and below
\* the threshold, and the call yielded.
C2_Witness ==
    /\ ncpus = 1
    /\ act["owner"] = "yield"
    /\ Lt(own["owner"], U32(SpinLimit))
    /\ Lt(own["owner"], yield_threshold)
    /\ lastOp = "spin_once"

\* C3: after N spin_once calls with no reset, count() returns
\* exactly N, for every N.
C3_CountIsNumberOfCalls ==
    (lastOp = "count" /\ ~everReset) =>
        calls["owner"] = [laps |-> 0, rem |-> ret_count]

\* C4: next_spin_will_yield() returns true iff the counter is at or above the
\* threshold; on a spinner never reset that is so iff at least threshold
\* calls were made (false before each of the first T calls, true after the
\* T-th).
C4_WillYieldIffAtThreshold ==
    lastOp = "next_spin_will_yield" =>
        /\ ret_yield <=> Ge(count, yield_threshold)
        /\ (~everReset /\ calls["owner"].laps = 0) =>
              (ret_yield <=> Ge(calls["owner"].rem, BuiltThreshold))

\* C4's case: the default spinner answers true right after its 10th call.
C4_Witness ==
    /\ lastOp = "next_spin_will_yield"
    /\ ret_yield
    /\ built.ctor = "new"
    /\ ~everReset
    /\ calls["owner"] = [laps |-> 0, rem |-> U32(DefaultThreshold)]

\* C5: next_spin_will_yield() tells whether the spin_once called right after
\* it yields: the answer is true exactly when that call yields, and it is
\* true on a host with one processor.
C5_PredictsNextSpin ==
    /\ (lastOp = "spin_once" /\ pred # "none") =>
          (pred = "yes" <=> act["owner"] = "yield")
    /\ (lastOp = "next_spin_will_yield" /\ ncpus = 1) => ret_yield

\* C6: spin_until alternates evaluations and wait steps: one spin_once after
\* each evaluation that was false, an evaluation after each spin_once, and a
\* return with no further spin_once at the first evaluation that is true.
C6_UntilAlternates ==
    /\ pc["owner"] = "until" =>
          /\ evals = steps
          /\ lastEval = IF evals = 0 THEN "none" ELSE "false"
    /\ pc["owner"] = "enter" => (evals = steps + 1 /\ lastEval = "false")
    /\ (caller["owner"] = "spin_until" /\ (InSpinOnce \/ pc["owner"] = "panicked")) =>
          (evals = steps /\ lastEval = "false")
    /\ lastEval = "true" =>
          /\ pc["owner"] = "idle"
          /\ lastOp = "spin_until"
          /\ evals = steps + 1

\* C6's case: spin_until returned after three evaluations and two wait steps.
C6_Witness ==
    /\ lastOp = "spin_until"
    /\ evals = 3
    /\ steps = 2
    /\ act["owner"] \in {"yield", "spin", "sleep"}

\* C7: in the two-thread scenario (the waiter in spin_until on the flag, a
\* second thread that sets the flag) spin_until eventually returns under
\* fair scheduling, and it returns only after an evaluation that saw the
\* flag true, so never when the flag is never set.
C7_UntilReturnsOnceFlagSet ==
    /\ [](lastOp = "spin_until" => (lastEval = "true" /\ flag))
    /\ (caller["owner"] = "spin_until" /\ pc["other"] # "absent")
          ~> (lastOp = "spin_until")

\* C8: when spin_until returns, the counter is the counter at the
\* call plus the number of evaluations that were false (the wait steps
\* taken), and is unchanged when the first evaluation is true.
C8_CounterIsStartPlusSteps ==
    lastOp = "spin_until" =>
        /\ [laps |-> 0, rem |-> count] = Plus([laps |-> 0, rem |-> c0], evals - 1)
        /\ [laps |-> 0, rem |-> count] = Plus([laps |-> 0, rem |-> c0], steps)
        /\ evals = 1 => count = c0

\* C9: right after reset() the counter is 0, whatever it was, and the
\* threshold is still the one the spinner was built with.
C9_ResetZeroesCounter ==
    lastOp = "reset" =>
        /\ count = Zero
        /\ yield_threshold = BuiltThreshold

\* C9's case: reset() after calls that had taken the counter to 2 (as in
\* tests::test_reset_clears_count).
C9_Witness ==
    /\ lastOp = "reset"
    /\ count = Zero
    /\ own["owner"] = U32(2)
    /\ act["owner"] # "none"

\* C10: a spinner built with threshold 0 yields on every spin_once, the first
\* included, and never spins or sleeps, on any host.
C10_ThresholdZeroAlwaysYields ==
    BuiltThreshold = Zero =>
        /\ act["owner"] \in {"none", "yield"}
        /\ pc["owner"] \notin {"lt4", "sleep", "panicked"}

\* C10's case: the first call of a threshold-0 spinner on a host with more
\* than one processor yielded.
C10_Witness ==
    /\ BuiltThreshold = Zero
    /\ ncpus > 1
    /\ ~everReset
    /\ calls["owner"] = [laps |-> 0, rem |-> U32(1)]
    /\ act["owner"] = "yield"

\* C11: on a host with more than one processor a spin_once whose
\* post-increment counter i is in [4, threshold) sleeps 2^i nanoseconds, and
\* of two sleeps the one with the larger counter is not the shorter, for
\* every threshold (those above 64 included).
C11_SleepIsTwoToTheCounter ==
    ncpus > 1 =>
        /\ (CallEnded /\ Ge(own["owner"], U32(SpinLimit))
                      /\ Lt(own["owner"], yield_threshold)) =>
              /\ act["owner"] = "sleep"
              /\ own["owner"].hi = 0
              /\ nanos_log2["owner"] = own["owner"].lo
        /\ (act["owner"] = "sleep" /\ prev["owner"].act = "sleep"
                /\ Ge(shift["owner"], prev["owner"].shift)) =>
              prev["owner"].log2 <= nanos_log2["owner"]

\* C12: no operation panics: no thread ever unwinds out of new,
\* with_threshold, spin_once, count, next_spin_will_yield or reset, whatever
\* the threshold and the counter.
C12_NoOperationPanics ==
    \A t \in Threads : pc[t] # "panicked" /\ act[t] # "panic"

\* C13: the counter never decreases except by reset(): every step other than
\* a reset leaves it at least as large, and every spin_once increment leaves
\* it strictly larger, also from u32::MAX.
C13_CounterNeverDecreases ==
    [][/\ lastOp' = "reset" \/ Ge(count', count)
       /\ calls' # calls /\ lastOp' # "reset" => (Ge(count', count) /\ count' # count)]_vars

\* No spin_once was called and no reset() since the spinner was built.
Fresh == ~everReset /\ calls["owner"] = NoCalls /\ pc["owner"] = "idle"

\* C14: a freshly built spinner has count() = 0 and, when its threshold is
\* above 0, next_spin_will_yield() = false; new() and default() give the
\* threshold 10 and with_threshold(t) gives t.
C14_FreshSpinner ==
    Fresh =>
        /\ count = Zero
        /\ lastOp = "count" => ret_count = Zero
        /\ (lastOp = "next_spin_will_yield" /\ yield_threshold # Zero) => ~ret_yield
        /\ built.ctor \in {"new", "default"} => yield_threshold = U32(DefaultThreshold)
        /\ built.ctor = "with_threshold" => yield_threshold = built.arg

\* C14's case: next_spin_will_yield() on a fresh with_threshold(5) spinner
\* answered false.
C14_Witness ==
    /\ Fresh
    /\ built = [ctor |-> "with_threshold", arg |-> U32(5)]
    /\ lastOp = "next_spin_will_yield"
    /\ ~ret_yield

\* C15: no step changes yield_threshold, and count() and
\* next_spin_will_yield() leave the counter as it is.
C15_ThresholdFixed ==
    [][/\ yield_threshold' = yield_threshold
       /\ lastOp' \in {"count", "next_spin_will_yield"} => count' = count]_vars

\* C15's case: count() was called after spin_once calls and a reset(), and
\* the threshold is still the one the spinner was built with.
C15_Witness ==
    /\ lastOp = "count"
    /\ everReset
    /\ ret_count = U32(2)
    /\ built = [ctor |-> "with_threshold", arg |-> U32(5)]
    /\ yield_threshold = U32(5)

\* C16: between resets, on a host with more than one processor, the actions
\* of successive spin_once calls go SPIN, BACKOFF, YIELD: a call after one
\* that yielded yields, and a call after one that slept does not spin.
C16_PhasesInOrder ==
    ncpus > 1 =>
        /\ prev["owner"].act = "yield" => act["owner"] \in {"none", "yield"}
        /\ prev["owner"].act = "sleep" => act["owner"] # "spin"

\* What the n-th spin_once call of an episode does on a spinner that only its
\* owner uses, n being the number of calls since the episode began.
EpisodeAction(n) ==
    IF Ge(n, yield_threshold) \/ ncpus = 1 THEN "yield"
    ELSE IF Lt(n, U32(SpinLimit)) THEN "spin"
    ELSE IF overflow_checks /\ Ge(n, U32(ShiftBits)) THEN "panic"
    ELSE "sleep"

\* C19: reset() leaves the spinner in the state of a newly built one, and in
\* every episode, begun by construction or by reset(), what spin_once does
\* and what count() and next_spin_will_yield() return is the same function
\* of the number of calls made since the episode began.
C19_ResetStartsFreshEpisode ==
    /\ lastOp = "reset" =>
          /\ count = Construct(built).count
          /\ yield_threshold = Construct(built).yield_threshold
    /\ lastOp = "count" => ret_count = calls["owner"].rem
    /\ lastOp = "next_spin_will_yield" =>
          (ret_yield <=> Ge(calls["owner"].rem, Construct(built).yield_threshold))
    /\ (calls["owner"] # NoCalls /\ CallEnded) =>
          /\ own["owner"] = calls["owner"].rem
          /\ act["owner"] = EpisodeAction(calls["owner"].rem)
          /\ act["owner"] = "sleep" =>
                nanos_log2["owner"] = calls["owner"].rem.lo % ShiftBits

\* C19's case: in an episode begun by reset(), the 5th call of a threshold-10
\* spinner slept 2^5 ns and count() then returned 5, as in a first episode.
C19_Witness ==
    /\ everReset
    /\ yield_threshold = U32(DefaultThreshold)
    /\ lastOp = "count"
    /\ ret_count = U32(5)
    /\ act["owner"] = "sleep"
    /\ nanos_log2["owner"] = 5

\* All spin_once calls made by the two threads since the spinner was built.
TotalCalls == Plus(calls["owner"], calls["other"].rem.lo)

\* C17: when a second thread calls reset() or spin_once() on the same
\* spinner, a spin_once call still takes the policy's action for the counter
\* value its own increment produced, and a sleep's exponent is that value
\* (so at least 4 and below the threshold).
C17_ActionFixedByOwnIncrement ==
    \A t \in Threads :
        (ncpus > 1 /\ act[t] # "none") =>
            /\ act[t] = PolicyAction(own[t], yield_threshold)
            /\ act[t] = "sleep" =>
                  /\ shift[t] = own[t]
                  /\ Ge(shift[t], U32(SpinLimit))
                  /\ Lt(shift[t], yield_threshold)

\* C18: with no reset, the counter is the number of spin_once calls
\* the two threads have made, in any interleaving, so k + m when both have
\* finished, and a count() read on the way is at most that.
C18_NoLostIncrement ==
    ~everReset =>
        /\ [laps |-> 0, rem |-> count] = TotalCalls
        /\ lastOp = "count" => Ge(TotalCalls.rem, ret_count)

=============================================================================
